---- MODULE Spec2Model ----
(***************************************************************************)
(* A model of app_scheduler.py: a Streamlit script (one run of the script  *)
(* per UI interaction, one script thread per browser session) that keeps   *)
(* a token list in tokens.json, a text log in run_tokens.log, and starts   *)
(* a background thread polling the process-wide `schedule` scheduler.      *)
(*                                                                         *)
(* Text is modelled character by character: a string is a sequence of      *)
(* one-character strings.  Files hold such sequences.                      *)
(***************************************************************************)
EXTENDS Integers, Sequences, FiniteSets, TLC

(***************************************************************************)
(* Bounds of the model.                                                    *)
(***************************************************************************)
MaxSessions == 2     \* browser sessions that may be opened
MaxDay      == 2     \* times the clock may cross SCHEDULE_TIME
MaxEvents   == 3     \* widget interactions over the life of the process

(***************************************************************************)
(* Program constants.                                                      *)
(***************************************************************************)
PrefixLen == 8       \* token[:8]

(***************************************************************************)
(* Characters and strings.                                                 *)
(***************************************************************************)
NL == "\n"
SP == " "
QUOTE == "\""
BACKSLASH == "\\"
TAB == "\t"

Min(a, b) == IF a < b THEN a ELSE b

Range(s) == {s[i] : i \in 1..Len(s)}

\* Python's s[:n]
Take(s, n) == SubSeq(s, 1, Min(n, Len(s)))

\* Python's s[n:]  (n counted from 0)
Drop(s, n) == SubSeq(s, n + 1, Len(s))

IsSpace(c) == c \in {SP, NL, TAB}

RECURSIVE LStrip(_)
LStrip(s) ==
    IF s # <<>> /\ IsSpace(Head(s)) THEN LStrip(Tail(s)) ELSE s

RECURSIVE RStrip(_)
RStrip(s) ==
    IF s # <<>> /\ IsSpace(s[Len(s)]) THEN RStrip(SubSeq(s, 1, Len(s) - 1)) ELSE s

\* str.strip()
Strip(s) == RStrip(LStrip(s))

\* position of the first line break of s, 0 when it has none
RECURSIVE FirstNL(_, _)
FirstNL(s, i) ==
    IF i > Len(s) THEN 0
    ELSE IF s[i] = NL THEN i
    ELSE FirstNL(s, i + 1)

\* str.splitlines(): the lines of s without their line breaks; no empty
\* last line after a final line break
RECURSIVE SplitLines(_)
SplitLines(s) ==
    IF s = <<>> THEN <<>>
    ELSE LET k == FirstNL(s, 1)
         IN  IF k = 0 THEN <<s>>
             ELSE <<SubSeq(s, 1, k - 1)>> \o SplitLines(Drop(s, k))

(***************************************************************************)
(* json.dumps(tokens, ensure_ascii=False, indent=2) of a list of strings,  *)
(* and json.loads of a text.                                               *)
(***************************************************************************)
\* a character written as it is, escaped or not
EscapeCharRaw(c) == <<c>>

\* one character of a string literal, escaped as json.dumps escapes it
EscapeChar(c) ==
    CASE c = QUOTE     -> <<BACKSLASH, QUOTE>>
      [] c = BACKSLASH -> <<BACKSLASH, BACKSLASH>>
      [] c = NL        -> <<BACKSLASH, "n">>
      [] c = TAB       -> <<BACKSLASH, "t">>
      [] OTHER         -> <<c>>

RECURSIVE EscapeChars(_)
EscapeChars(s) ==
    IF s = <<>> THEN <<>> ELSE EscapeChar(Head(s)) \o EscapeChars(Tail(s))

EncodeString(s) == <<QUOTE>> \o EscapeChars(s) \o <<QUOTE>>

\* the items of a non-empty list, each on a line of its own, indented by two
RECURSIVE EncodeItems(_)
EncodeItems(l) ==
    <<NL, SP, SP>> \o EncodeString(Head(l)) \o
    (IF Len(l) = 1 THEN <<NL>> ELSE <<",">> \o EncodeItems(Tail(l)))

json_dumps(l) ==
    IF l = <<>> THEN <<"[", "]">> ELSE <<"[">> \o EncodeItems(l) \o <<"]">>

\* A parse result: ok, the value, and the position after it.
ParseError == [ok |-> FALSE, val |-> <<>>, next |-> 0]
Parsed(v, n) == [ok |-> TRUE, val |-> v, next |-> n]

IsJsonWs(c) == c \in {SP, NL, TAB, "\r"}

RECURSIVE SkipWs(_, _)
SkipWs(s, i) ==
    IF i <= Len(s) /\ IsJsonWs(s[i]) THEN SkipWs(s, i + 1) ELSE i

\* the characters of a string literal from position i (after its opening
\* quote) up to its closing quote
RECURSIVE ParseChars(_, _, _)
ParseChars(s, i, acc) ==
    IF i > Len(s) THEN ParseError
    ELSE IF s[i] = QUOTE THEN Parsed(acc, i + 1)
    ELSE IF s[i] = BACKSLASH THEN
        IF i + 1 > Len(s) THEN ParseError
        ELSE CASE s[i + 1] \in {QUOTE, BACKSLASH, "/"}
                      -> ParseChars(s, i + 2, Append(acc, s[i + 1]))
               [] s[i + 1] = "n" -> ParseChars(s, i + 2, Append(acc, NL))
               [] s[i + 1] = "t" -> ParseChars(s, i + 2, Append(acc, TAB))
               [] OTHER -> ParseError
    ELSE IF s[i] \in {NL, TAB} THEN ParseError    \* a raw control character
    ELSE ParseChars(s, i + 1, Append(acc, s[i]))

\* the items of an array from position i, the start of an item
RECURSIVE ParseItems(_, _, _)
ParseItems(s, i, acc) ==
    IF i > Len(s) \/ s[i] # QUOTE THEN ParseError
    ELSE LET str == ParseChars(s, i + 1, <<>>)
             j   == SkipWs(s, str.next)
         IN  IF ~str.ok \/ j > Len(s) THEN ParseError
             ELSE IF s[j] = "," THEN
                 ParseItems(s, SkipWs(s, j + 1), Append(acc, str.val))
             ELSE IF s[j] = "]" THEN Parsed(Append(acc, str.val), j + 1)
             ELSE ParseError

\* json.loads of a text holding an array of strings; any other text the
\* program can leave in the file (an empty or cut-off one) is an error
json_loads(s) ==
    LET i == SkipWs(s, 1)
    IN  IF i > Len(s) \/ s[i] # "[" THEN ParseError
        ELSE LET j   == SkipWs(s, i + 1)
                 arr == IF j <= Len(s) /\ s[j] = "]"
                        THEN Parsed(<<>>, j + 1)
                        ELSE ParseItems(s, j, <<>>)
             IN  IF arr.ok /\ SkipWs(s, arr.next) = Len(s) + 1
                 THEN arr ELSE ParseError

(***************************************************************************)
(* Files.  A file is absent or holds a text.                               *)
(***************************************************************************)
NoFile == [exists |-> FALSE, text |-> <<>>]
FileOf(text) == [exists |-> TRUE, text |-> text]

\* load_tokens() applied to the token file f
load_tokens(f) ==
    IF f.exists
    THEN LET r == json_loads(f.text) IN IF r.ok THEN r.val ELSE <<>>
    ELSE <<>>

\* what save_tokens(tokens) writes
save_tokens(tokens) == json_dumps(tokens)

(***************************************************************************)
(* The "add tokens" computation of the UI script.                          *)
(***************************************************************************)
\* new = [t.strip() for t in token_input.splitlines() if t.strip()]
RECURSIVE StripLines(_)
StripLines(lines) ==
    IF lines = <<>> THEN <<>>
    ELSE LET t == Strip(Head(lines))
         IN  (IF t # <<>> THEN <<t>> ELSE <<>>) \o StripLines(Tail(lines))

\* the comprehension without its filter `if t.strip()`
RECURSIVE StripEveryLine(_)
StripEveryLine(lines) ==
    IF lines = <<>> THEN <<>>
    ELSE <<Strip(Head(lines))>> \o StripEveryLine(Tail(lines))

NewTokensUnfiltered(token_input) == StripEveryLine(SplitLines(token_input))

NewTokens(token_input) == StripLines(SplitLines(token_input))

\* the loop over new: append each token not in `existing`
RECURSIVE AddLoop(_, _, _, _)
AddLoop(new, tokens, existing, added) ==
    IF new = <<>> THEN [tokens |-> tokens, added |-> added]
    ELSE LET t == Head(new)
         IN  IF t \notin existing
             THEN AddLoop(Tail(new), Append(tokens, t), existing \cup {t}, added + 1)
             ELSE AddLoop(Tail(new), tokens, existing, added)

\* the loop without its membership test: every token of new is appended
AddTokensUnchecked(tokens, new) == [tokens |-> tokens \o new, added |-> Len(new)]

\* the loop with `existing` starting empty instead of set(tokens)
AddTokensFreshSet(tokens, new) == AddLoop(new, tokens, {}, 0)

\* tokens and added after the handler's loop, from the loaded tokens
AddTokens(tokens, new) == AddLoop(new, tokens, Range(tokens), 0)

\* tokens.pop(i), i counted from 0
Pop(tokens, i) == SubSeq(tokens, 1, i) \o SubSeq(tokens, i + 2, Len(tokens))

(***************************************************************************)
(* Tokens and texts the model draws its inputs from.                       *)
(***************************************************************************)
TokA == <<"a", QUOTE, BACKSLASH>>                       \* 3 characters
TokB == <<"b", "1", "2", "3", "4", "5", "6", "7">>      \* 8 characters
TokC == <<"c", "1", "2", "3", "4", "5", "6", "7", "8">> \* 9 characters
Tokens == {TokA, TokB, TokC}

\* texts a user may paste into the text area: nothing; nothing but white
\* space; a token; a token between blanks, twice; two tokens and an empty
\* line
InputTexts ==
    { <<>>,
      <<SP, NL, SP>>,
      TokB,
      <<SP>> \o TokA \o <<SP, NL>> \o TokA,
      TokC \o <<NL, NL>> \o TokA \o <<NL>> }

HttpStatuses == {200, 403}

(***************************************************************************)
(* State.                                                                  *)
(*                                                                         *)
(* Every browser session s runs the script in a thread of its own, the     *)
(* process UI(s); the scheduler thread that session s starts is the        *)
(* process Sched(s).  pc is the place of a process in the code, ret the    *)
(* place append_log returns to.                                            *)
(***************************************************************************)
VARIABLES
    clock,          \* times the wall clock has crossed SCHEDULE_TIME
    polled,         \* scheduler threads that ran run_pending since the last crossing
    jobs,           \* schedule's default scheduler: its list of jobs
    next_run,       \* next_run of each job (a crossing of SCHEDULE_TIME)
    todo,           \* per scheduler thread: the runnable jobs run_pending still has to run
    fired,          \* per crossing: how often job_run_all was invoked
    armed,          \* crossings that a live scheduler thread and a job saw
    session_state,  \* per session: "scheduler_thread_started" in st.session_state
    pc, ret,
    tokens,         \* per session: the script's list `tokens`
    added,          \* per session: the add handler's `added`
    popped,         \* per session: the token tokens.pop(i) took out
    event,          \* per session: the widget whose interaction started the run
    last_event,     \* per session: the widget of its run before
    shown,          \* per session: the token list the page shows
    run,            \* per process: run_all_tokens' tokens and results
    req,            \* per process: run_request_for_token's token and outcome
    log,            \* per process: append_log's line and the content it read
    tokens_file,    \* tokens.json
    log_file,       \* run_tokens.log, a list of lines
    events,         \* widget interactions so far
    persisted       \* tokens saved by an add and not removed by a delete since

vars == <<clock, polled, jobs, next_run, todo, fired, armed, session_state, pc,
          ret, tokens, added, popped, event, last_event, shown, run, req, log,
          tokens_file, log_file, events, persisted>>

schedVars == <<polled, jobs, next_run, todo, fired, armed>>
uiVars    == <<tokens, added, popped, event, last_event, shown, events>>

Sessions == 1..MaxSessions
UI(s)    == <<"ui", s>>
Sched(s) == <<"sched", s>>
Procs    == {UI(s) : s \in Sessions} \cup {Sched(s) : s \in Sessions}
IsSched(p) == p[1] = "sched"

\* a line of the log: the timestamp and the message, the message as its
\* format string's kind and the values put into it
Line(ts, kind, prefix, n) == [ts |-> ts, kind |-> kind, prefix |-> prefix, n |-> n]

\* what a widget hands to the script run it starts: the widget's kind, the
\* text area's content (the save button) and the row's index (a row's button)
Event(kind, text, i) == [kind |-> kind, text |-> text, i |-> i]
NoEvent == Event("none", <<>>, 0)

NoRun == [status |-> "none", tokens |-> <<>>, results |-> <<>>]
NoReq == [token |-> <<>>, ok |-> FALSE, status |-> 0]
NoLog == [line |-> Line(0, "", <<>>, 0), content |-> <<>>]

\* token[:8]
TokenPrefix(token) == Take(token, PrefixLen)

Ellipsis == <<".", ".", ".">>

\* {"token_prefix": t[:8]+"...", "ok": ok, "status": status, ...}
Result(t, ok, status) ==
    [token_prefix |-> TokenPrefix(t) \o Ellipsis, ok |-> ok, status |-> status]

\* stop_event.is_set(): nothing in the script sets the event it creates
stop_event_is_set == FALSE

\* token files the process may find when it starts
InitialTokenFiles ==
    {NoFile} \cup {FileOf(json_dumps(l)) : l \in {<<>>, <<TokB>>, <<TokC, TokA>>}}

Init ==
    /\ clock = 0
    /\ polled = {}
    /\ jobs = <<>>
    /\ next_run = [s \in Sessions |-> 0]
    /\ todo = [s \in Sessions |-> <<>>]
    /\ fired = [d \in 1..MaxDay |-> 0]
    /\ armed = {}
    /\ session_state = [s \in Sessions |-> FALSE]
    /\ pc = [p \in Procs |-> IF IsSched(p) THEN "unstarted" ELSE "closed"]
    /\ ret = [p \in Procs |-> ""]
    /\ tokens = [s \in Sessions |-> <<>>]
    /\ added = [s \in Sessions |-> 0]
    /\ popped = [s \in Sessions |-> <<>>]
    /\ event = [s \in Sessions |-> NoEvent]
    /\ last_event = [s \in Sessions |-> NoEvent]
    /\ shown = [s \in Sessions |-> <<>>]
    /\ run = [p \in Procs |-> NoRun]
    /\ req = [p \in Procs |-> NoReq]
    /\ log = [p \in Procs |-> NoLog]
    /\ tokens_file \in InitialTokenFiles
    /\ log_file = NoFile
    /\ events = 0
    /\ persisted = Range(load_tokens(tokens_file))

(***************************************************************************)
(* append_log(text).  The line is built first (line 46); then the file is  *)
(* read, and written with what was read plus the line (lines 47-50).       *)
(* Path.write_text empties the file when it opens it and then writes; for  *)
(* the log the two are one step, LogWrite.                                 *)
(***************************************************************************)
AppendLogCall(p, kind, prefix, n, return) ==
    /\ log' = [log EXCEPT ![p] = [line |-> Line(clock, kind, prefix, n),
                                  content |-> <<>>]]
    /\ ret' = [ret EXCEPT ![p] = return]

LogRead(p) ==
    /\ pc[p] = "log_read"
    /\ log' = [log EXCEPT ![p].content =
                   IF log_file.exists THEN log_file.text ELSE <<>>]
    /\ pc' = [pc EXCEPT ![p] = "log_write"]
    /\ UNCHANGED <<clock, schedVars, session_state, uiVars, ret, run, req,
                   tokens_file, log_file, persisted>>

\* the write of lines 48 and 50, of the line after `content`
WriteLog(p, content) ==
    /\ log_file' = FileOf(Append(content, log[p].line))
    /\ log' = [log EXCEPT ![p] = NoLog]
    /\ pc' = [pc EXCEPT ![p] = ret[p]]
    /\ UNCHANGED <<clock, schedVars, session_state, uiVars, ret, run, req,
                   tokens_file, persisted>>

LogWrite(p) ==
    /\ pc[p] = "log_write"
    /\ WriteLog(p, log[p].content)

\* lines 47-50 with no step of another thread between the read and the write
AppendLog(p) ==
    /\ pc[p] = "log_read"
    /\ WriteLog(p, IF log_file.exists THEN log_file.text ELSE <<>>)

\* the widget of the run that ends
LastEvent(s) == IF event[s].kind = "none" THEN last_event[s] ELSE event[s]

\* the end of a script run
EndOfScript(s) ==
    /\ pc' = [pc EXCEPT ![UI(s)] = "idle"]
    /\ event' = [event EXCEPT ![s] = NoEvent]
    /\ last_event' = [last_event EXCEPT ![s] = LastEvent(s)]

\* A file operation of append_log raises (OSError: no space, no permission).
\* Inside run_request_for_token's try (line 78) the handler of line 83 runs,
\* which calls append_log again; anywhere else nothing catches it: a script
\* run ends with the error on the page, a scheduler thread ends.
LogRaise(p) ==
    /\ pc[p] = "log_read"
    /\ IF ret[p] = "req_ok"
       THEN /\ AppendLogCall(p, "tok_exception", TokenPrefix(req[p].token), 0, "req_exc")
            /\ req' = [req EXCEPT ![p].ok = FALSE, ![p].status = 0]
            /\ UNCHANGED <<pc, run, todo, event, last_event, shown>>
       ELSE /\ log' = [log EXCEPT ![p] = NoLog]
            /\ ret' = [ret EXCEPT ![p] = ""]
            /\ req' = [req EXCEPT ![p] = NoReq]
            /\ run' = [run EXCEPT ![p].status =
                           IF @ # "running" THEN @
                           ELSE IF ret[p] = "req_exc" THEN "aborted by a token"
                           ELSE "aborted"]
            /\ IF IsSched(p)
               THEN /\ pc' = [pc EXCEPT ![p] = "dead"]
                    /\ todo' = [todo EXCEPT ![p[2]] = <<>>]
                    /\ UNCHANGED <<event, last_event, shown>>
               ELSE /\ EndOfScript(p[2])
                    /\ shown' = [shown EXCEPT ![p[2]] =
                                     IF event[p[2]].kind = "runall"
                                     THEN tokens[p[2]] ELSE <<>>]
                    /\ UNCHANGED todo
    /\ UNCHANGED <<clock, polled, jobs, next_run, fired, armed, session_state,
                   tokens, added, popped, events, tokens_file, log_file, persisted>>

(***************************************************************************)
(* The UI script.  A run starts when a session opens or a widget is used.  *)
(***************************************************************************)
\* lines 116-123
ScriptTop(s) ==
    IF ~session_state[s]
    THEN /\ session_state' = [session_state EXCEPT ![s] = TRUE]
         /\ AppendLogCall(UI(s), "ui_autostart", <<>>, 0, "load")
         /\ pc' = [pc EXCEPT ![Sched(s)] = "clear", ![UI(s)] = "log_read"]
    ELSE /\ pc' = [pc EXCEPT ![UI(s)] = "load"]
         /\ UNCHANGED <<session_state, log, ret>>

OpenSession(s) ==
    /\ pc[UI(s)] = "closed"
    /\ ScriptTop(s)
    /\ UNCHANGED <<clock, schedVars, uiVars, run, req, tokens_file, log_file,
                   persisted>>

Interact(s, kind, text, i) ==
    /\ pc[UI(s)] = "idle"
    /\ events < MaxEvents
    /\ events' = events + 1
    /\ event' = [event EXCEPT ![s] = Event(kind, text, i)]
    /\ ScriptTop(s)
    /\ UNCHANGED <<clock, schedVars, tokens, added, popped, last_event, shown,
                   run, req, tokens_file, log_file, persisted>>

ClickSave(s)     == \E text \in InputTexts : Interact(s, "add", text, 0)
ClickDelete(s)   == \E i \in 0..(Len(shown[s]) - 1) : Interact(s, "del", <<>>, i)
ClickTest(s)     == \E i \in 0..(Len(shown[s]) - 1) : Interact(s, "test", <<>>, i)
ClickRunAll(s)   == Interact(s, "runall", <<>>, 0)
ClickDownload(s) == Interact(s, "download", <<>>, 0)

\* line 132 and the script after it up to its next file or network operation
Script(s) ==
    /\ pc[UI(s)] = "load"
    /\ LET loaded == load_tokens(tokens_file)
           ev     == event[s]
           new    == NewTokens(ev.text)
           r      == AddTokens(loaded, new)
       IN  IF ev.kind = "add" /\ new # <<>>
           THEN /\ tokens' = [tokens EXCEPT ![s] = r.tokens]
                /\ added' = [added EXCEPT ![s] = r.added]
                /\ pc' = [pc EXCEPT ![UI(s)] = "save_open"]
                /\ UNCHANGED <<popped, event, last_event, shown, req>>
           ELSE IF ev.kind = "del" /\ ev.i < Len(loaded)
           THEN /\ tokens' = [tokens EXCEPT ![s] = Pop(loaded, ev.i)]
                /\ popped' = [popped EXCEPT ![s] = loaded[ev.i + 1]]
                /\ pc' = [pc EXCEPT ![UI(s)] = "save_open"]
                /\ UNCHANGED <<added, event, last_event, shown, req>>
           ELSE IF ev.kind = "test" /\ ev.i < Len(loaded)
           THEN /\ tokens' = [tokens EXCEPT ![s] = loaded]
                /\ req' = [req EXCEPT ![UI(s)] =
                               [token |-> loaded[ev.i + 1], ok |-> FALSE, status |-> 0]]
                /\ pc' = [pc EXCEPT ![UI(s)] = "request"]
                /\ UNCHANGED <<added, popped, event, last_event, shown>>
           ELSE IF ev.kind = "runall"
           THEN /\ tokens' = [tokens EXCEPT ![s] = loaded]
                /\ pc' = [pc EXCEPT ![UI(s)] = "run_load"]
                /\ UNCHANGED <<added, popped, event, last_event, shown, req>>
           ELSE /\ tokens' = [tokens EXCEPT ![s] = loaded]
                /\ shown' = [shown EXCEPT ![s] = loaded]
                /\ EndOfScript(s)
                /\ UNCHANGED <<added, popped, req>>
    /\ UNCHANGED <<clock, schedVars, session_state, ret, events, run, log,
                   tokens_file, log_file, persisted>>

\* save_tokens(tokens): write_text opens the file, which empties it, ...
SaveOpen(s) ==
    /\ pc[UI(s)] = "save_open"
    /\ tokens_file' = FileOf(<<>>)
    /\ pc' = [pc EXCEPT ![UI(s)] = "save_write"]
    /\ UNCHANGED <<clock, schedVars, session_state, uiVars, ret, run, req, log,
                   log_file, persisted>>

\* ... and writes the serialized list; then the handler logs what it did
SaveWrite(s) ==
    /\ pc[UI(s)] = "save_write"
    /\ tokens_file' = FileOf(save_tokens(tokens[s]))
    /\ IF event[s].kind = "add"
       THEN /\ persisted' = persisted \cup Range(NewTokens(event[s].text))
            /\ AppendLogCall(UI(s), "ui_added", <<>>, added[s], "rerun")
       ELSE /\ persisted' = persisted \ {popped[s]}
            /\ AppendLogCall(UI(s), "ui_deleted", <<>>, event[s].i, "rerun")
    /\ pc' = [pc EXCEPT ![UI(s)] = "log_read"]
    /\ UNCHANGED <<clock, schedVars, session_state, uiVars, run, req, log_file>>

\* st.rerun(): the script runs again from its top, no widget pressed
Rerun(s) ==
    /\ pc[UI(s)] = "rerun"
    /\ event' = [event EXCEPT ![s] = NoEvent]
    /\ last_event' = [last_event EXCEPT ![s] = LastEvent(s)]
    /\ ScriptTop(s)
    /\ UNCHANGED <<clock, schedVars, tokens, added, popped, shown, events, run,
                   req, tokens_file, log_file, persisted>>

(***************************************************************************)
(* run_request_for_token(token) and run_all_tokens().                      *)
(***************************************************************************)
\* line 77 returns a response, which line 78 logs
RequestResponds(p) ==
    /\ pc[p] = "request"
    /\ \E status \in HttpStatuses :
         /\ req' = [req EXCEPT ![p].ok = TRUE, ![p].status = status]
         /\ AppendLogCall(p, "tok_status", TokenPrefix(req[p].token), status, "req_ok")
    /\ pc' = [pc EXCEPT ![p] = "log_read"]
    /\ UNCHANGED <<clock, schedVars, session_state, uiVars, run, tokens_file,
                   log_file, persisted>>

\* line 77 raises and the handler returns without logging
RequestRaisesSilent(p) ==
    /\ pc[p] = "request"
    /\ req' = [req EXCEPT ![p].ok = FALSE, ![p].status = 0]
    /\ pc' = [pc EXCEPT ![p] = "req_exc"]
    /\ UNCHANGED <<clock, schedVars, session_state, uiVars, run, log, ret,
                   tokens_file, log_file, persisted>>

\* line 77 raises (no connection, timeout), which line 84 logs
RequestRaises(p) ==
    /\ pc[p] = "request"
    /\ req' = [req EXCEPT ![p].ok = FALSE, ![p].status = 0]
    /\ AppendLogCall(p, "tok_exception", TokenPrefix(req[p].token), 0, "req_exc")
    /\ pc' = [pc EXCEPT ![p] = "log_read"]
    /\ UNCHANGED <<clock, schedVars, session_state, uiVars, run, tokens_file,
                   log_file, persisted>>

\* the result put before the results so far
PrependResult(results, r) == <<r>> \o results

\* line 95: results.append({...})
AppendResult(results, r) == Append(results, r)

\* the loop reading the token file again on every round
RunLoopReload(p, results) ==
    LET loaded == load_tokens(tokens_file)
    IN  /\ run' = [run EXCEPT ![p].results = results, ![p].tokens = loaded]
        /\ IF Len(results) < Len(loaded)
           THEN /\ req' = [req EXCEPT ![p] =
                               [token |-> loaded[Len(results) + 1],
                                ok |-> FALSE, status |-> 0]]
                /\ pc' = [pc EXCEPT ![p] = "request"]
                /\ UNCHANGED <<log, ret>>
           ELSE /\ req' = [req EXCEPT ![p] = NoReq]
                /\ AppendLogCall(p, "run_end", <<>>, 0, "run_return")
                /\ pc' = [pc EXCEPT ![p] = "log_read"]

\* the loop of run_all_tokens with `results` so far: the request for the next
\* token, or line 96 after the last
RunLoop(p, results) ==
    /\ run' = [run EXCEPT ![p].results = results]
    /\ IF Len(results) < Len(run[p].tokens)
       THEN /\ req' = [req EXCEPT ![p] =
                           [token |-> run[p].tokens[Len(results) + 1],
                            ok |-> FALSE, status |-> 0]]
            /\ pc' = [pc EXCEPT ![p] = "request"]
            /\ UNCHANGED <<log, ret>>
       ELSE /\ req' = [req EXCEPT ![p] = NoReq]
            /\ AppendLogCall(p, "run_end", <<>>, 0, "run_return")
            /\ pc' = [pc EXCEPT ![p] = "log_read"]

\* lines 90-91 with the loaded list written back to the token file
RunLoadSaving(p) ==
    /\ pc[p] = "run_load"
    /\ LET loaded == load_tokens(tokens_file)
       IN  /\ run' = [run EXCEPT ![p] = [status |-> "running", tokens |-> loaded,
                                         results |-> <<>>]]
           /\ AppendLogCall(p, "run_start", <<>>, Len(loaded), "run_loop")
           /\ tokens_file' = FileOf(save_tokens(loaded))
    /\ pc' = [pc EXCEPT ![p] = "log_read"]
    /\ UNCHANGED <<clock, schedVars, session_state, uiVars, req, log_file,
                   persisted>>

\* lines 90-91
RunLoad(p) ==
    /\ pc[p] = "run_load"
    /\ LET loaded == load_tokens(tokens_file)
       IN  /\ run' = [run EXCEPT ![p] = [status |-> "running", tokens |-> loaded,
                                         results |-> <<>>]]
           /\ AppendLogCall(p, "run_start", <<>>, Len(loaded), "run_loop")
    /\ pc' = [pc EXCEPT ![p] = "log_read"]
    /\ UNCHANGED <<clock, schedVars, session_state, uiVars, req, tokens_file,
                   log_file, persisted>>

\* line 93, the first time
RunFirst(p) ==
    /\ pc[p] = "run_loop"
    /\ RunLoop(p, <<>>)
    /\ UNCHANGED <<clock, schedVars, session_state, uiVars, tokens_file,
                   log_file, persisted>>

\* run_request_for_token returns (lines 80-82, 85) to the loop of
\* run_all_tokens (line 95) or to the test handler (lines 167-172)
RequestReturn(p) ==
    /\ pc[p] \in {"req_ok", "req_exc"}
    /\ IF run[p].status = "running"
       THEN /\ RunLoop(p, AppendResult(run[p].results,
                                 Result(req[p].token, req[p].ok, req[p].status)))
            /\ UNCHANGED <<event, last_event, shown>>
       ELSE /\ req' = [req EXCEPT ![p] = NoReq]
            /\ shown' = [shown EXCEPT ![p[2]] = tokens[p[2]]]
            /\ EndOfScript(p[2])
            /\ UNCHANGED <<run, log, ret>>
    /\ UNCHANGED <<clock, schedVars, session_state, tokens, added, popped, events,
                   tokens_file, log_file, persisted>>

\* run_all_tokens returns its results to the "run all now" handler
RunReturnUI(s) ==
    /\ pc[UI(s)] = "run_return"
    /\ run' = [run EXCEPT ![UI(s)] = NoRun]
    /\ shown' = [shown EXCEPT ![s] = tokens[s]]
    /\ EndOfScript(s)
    /\ UNCHANGED <<clock, schedVars, session_state, tokens, added, popped, events,
                   ret, req, log, tokens_file, log_file, persisted>>

(***************************************************************************)
(* The scheduler thread and the `schedule` package's default scheduler,    *)
(* which all threads of the process share.                                 *)
(***************************************************************************)
\* the jobs of js that should run (next_run reached), by next_run
Runnable(js) == SelectSeq(js, LAMBDA j : clock >= next_run[j])

RECURSIVE InsertJob(_, _)
InsertJob(sorted, j) ==
    IF sorted = <<>> THEN <<j>>
    ELSE IF next_run[j] < next_run[Head(sorted)] THEN <<j>> \o sorted
    ELSE <<Head(sorted)>> \o InsertJob(Tail(sorted), j)

RECURSIVE SortJobs(_)
SortJobs(js) ==
    IF js = <<>> THEN <<>>
    ELSE InsertJob(SortJobs(SubSeq(js, 1, Len(js) - 1)), js[Len(js)])

\* the scheduler runs a job: job_run_all, line 102
StartJob(s) ==
    /\ fired' = [fired EXCEPT ![clock] = @ + 1]
    /\ AppendLogCall(Sched(s), "job_triggered", <<>>, 0, "run_load")
    /\ pc' = [pc EXCEPT ![Sched(s)] = "log_read"]

\* line 106
SchedClear(s) ==
    /\ pc[Sched(s)] = "clear"
    /\ jobs' = <<>>
    /\ pc' = [pc EXCEPT ![Sched(s)] = "register"]
    /\ UNCHANGED <<clock, polled, next_run, todo, fired, armed, session_state, uiVars,
                   ret, run, req, log, tokens_file, log_file, persisted>>

\* lines 107-108: the job's first run is at the next SCHEDULE_TIME
SchedRegister(s) ==
    /\ pc[Sched(s)] = "register"
    /\ jobs' = Append(jobs, s)
    /\ next_run' = [next_run EXCEPT ![s] = clock + 1]
    /\ AppendLogCall(Sched(s), "sched_started", <<>>, 0, "loop")
    /\ pc' = [pc EXCEPT ![Sched(s)] = "log_read"]
    /\ UNCHANGED <<clock, polled, todo, fired, armed, session_state, uiVars, run, req,
                   tokens_file, log_file, persisted>>

\* lines 109-112: run_pending() collects the jobs that should run and runs
\* them one after the other
SchedPoll(s) ==
    /\ pc[Sched(s)] = "loop"
    /\ IF stop_event_is_set
       THEN /\ AppendLogCall(Sched(s), "sched_stopping", <<>>, 0, "exit")
            /\ pc' = [pc EXCEPT ![Sched(s)] = "log_read"]
            /\ UNCHANGED <<polled, todo, fired>>
       ELSE /\ polled' = polled \cup {s}
            /\ todo' = [todo EXCEPT ![s] = SortJobs(Runnable(jobs))]
            /\ IF Runnable(jobs) # <<>>
               THEN StartJob(s)
               ELSE UNCHANGED <<fired, pc, log, ret>>
    /\ UNCHANGED <<clock, jobs, next_run, armed, session_state, uiVars, run, req,
                   tokens_file, log_file, persisted>>

\* job_run_all returns: Job.run sets last_run and the job's next_run, the
\* next SCHEDULE_TIME after now; run_pending goes on to its next job
JobDone(s) ==
    /\ pc[Sched(s)] = "run_return"
    /\ run' = [run EXCEPT ![Sched(s)] = NoRun]
    /\ next_run' = [next_run EXCEPT ![Head(todo[s])] = clock + 1]
    /\ todo' = [todo EXCEPT ![s] = Tail(@)]
    /\ IF Tail(todo[s]) # <<>>
       THEN StartJob(s)
       ELSE /\ pc' = [pc EXCEPT ![Sched(s)] = "loop"]
            /\ UNCHANGED <<fired, log, ret>>
    /\ UNCHANGED <<clock, polled, jobs, armed, session_state, uiVars, req, tokens_file,
                   log_file, persisted>>

\* The clock crosses SCHEDULE_TIME.  A day is long against the 5 seconds of
\* the loop and against a batch: by then every scheduler thread is in its
\* loop and has polled since the crossing before.
Tick ==
    /\ clock < MaxDay
    /\ \A s \in Sessions :
         \/ pc[Sched(s)] \in {"unstarted", "dead"}
         \/ pc[Sched(s)] = "loop" /\ s \in polled
    /\ clock' = clock + 1
    /\ polled' = {}
    /\ armed' = IF jobs # <<>> /\ \E s \in Sessions : pc[Sched(s)] = "loop"
                THEN armed \cup {clock + 1} ELSE armed
    /\ UNCHANGED <<jobs, next_run, todo, fired, session_state, uiVars, pc, ret,
                   run, req, log, tokens_file, log_file, persisted>>

(***************************************************************************)
(* Specifications.  Next is the whole program.  The others are parts of    *)
(* it: their steps are steps of Next, so what they reach Spec reaches.     *)
(***************************************************************************)
UIProcs    == {UI(s) : s \in Sessions}
SchedProcs == {Sched(s) : s \in Sessions}

Next ==
    \/ \E s \in Sessions :
         \/ OpenSession(s)
         \/ ClickSave(s)
         \/ ClickDelete(s)
         \/ ClickTest(s)
         \/ ClickRunAll(s)
         \/ ClickDownload(s)
         \/ Script(s)
         \/ SaveOpen(s)
         \/ SaveWrite(s)
         \/ Rerun(s)
         \/ RunReturnUI(s)
         \/ SchedClear(s)
         \/ SchedRegister(s)
         \/ SchedPoll(s)
         \/ JobDone(s)
    \/ \E p \in Procs :
         \/ LogRead(p)
         \/ LogWrite(p)
         \/ AppendLog(p)
         \/ LogRaise(p)
         \/ RequestResponds(p)
         \/ RequestRaises(p)
         \/ RunLoad(p)
         \/ RunFirst(p)
         \/ RequestReturn(p)
    \/ Tick

Spec == Init /\ [][Next]_vars

\* Sessions open over an empty token store and their scheduler threads run
\* through the first SCHEDULE_TIME; no thread is interrupted inside
\* append_log.
NextDaily ==
    \/ \E s \in Sessions :
         \/ OpenSession(s)
         \/ SchedClear(s)
         \/ SchedRegister(s)
         \/ SchedPoll(s)
         \/ JobDone(s)
    \/ \E p \in SchedProcs :
         \/ AppendLog(p)
         \/ RunLoad(p)
         \/ RunFirst(p)
    \/ (clock = 0 /\ Tick)

\* the token store is empty: no file, or the file of an empty list
InitDaily == Init /\ load_tokens(tokens_file) = <<>>

SpecDaily == InitDaily /\ [][NextDaily]_vars

\* One session opens; its scheduler thread runs over the days, and file
\* operations of append_log may fail.
NextJob ==
    \/ OpenSession(1)
    \/ Script(1)
    \/ SchedClear(1)
    \/ SchedRegister(1)
    \/ SchedPoll(1)
    \/ JobDone(1)
    \/ \E p \in {UI(1), Sched(1)} :
         \/ LogRead(p)
         \/ LogWrite(p)
         \/ LogRaise(p)
         \/ RequestResponds(p)
         \/ RequestRaises(p)
         \/ RunLoad(p)
         \/ RunFirst(p)
         \/ RequestReturn(p)
    \/ Tick

SpecJob == Init /\ [][NextJob]_vars

\* Sessions add and delete tokens; no scheduler thread has run yet, and no
\* script thread is interrupted inside append_log.
NextUI ==
    \/ \E s \in Sessions :
         \/ OpenSession(s)
         \/ ClickSave(s)
         \/ ClickDelete(s)
         \/ Script(s)
         \/ SaveOpen(s)
         \/ SaveWrite(s)
         \/ Rerun(s)
    \/ \E p \in UIProcs : AppendLog(p)

SpecUI == Init /\ [][NextUI]_vars

\* Sessions open, each starting its scheduler thread: the threads of the
\* process in append_log at the same time.
NextLog ==
    \/ \E s \in Sessions :
         \/ OpenSession(s)
         \/ Script(s)
         \/ SchedClear(s)
         \/ SchedRegister(s)
         \/ SchedPoll(s)
    \/ \E p \in Procs :
         \/ LogRead(p)
         \/ LogWrite(p)

SpecLog == Init /\ [][NextLog]_vars

\* One session and its widgets, before its scheduler thread has run.
NextManual ==
    \/ OpenSession(1)
    \/ ClickSave(1)
    \/ ClickDelete(1)
    \/ ClickTest(1)
    \/ ClickRunAll(1)
    \/ ClickDownload(1)
    \/ Script(1)
    \/ SaveOpen(1)
    \/ SaveWrite(1)
    \/ Rerun(1)
    \/ RunReturnUI(1)
    \/ LogRead(UI(1))
    \/ LogWrite(UI(1))
    \/ RequestResponds(UI(1))
    \/ RequestRaises(UI(1))
    \/ RunLoad(UI(1))
    \/ RunFirst(UI(1))
    \/ RequestReturn(UI(1))

SpecManual == Init /\ [][NextManual]_vars

\* The scheduler thread of a session triggers the daily job over a store of
\* one token, and the session presses "run all now" once after that: both
\* threads in run_all_tokens and in append_log at once.
NextOverlap ==
    \/ OpenSession(1)
    \/ (events = 0 /\ fired[1] = 1 /\ ClickRunAll(1))
    \/ Script(1)
    \/ RunReturnUI(1)
    \/ SchedClear(1)
    \/ SchedRegister(1)
    \/ SchedPoll(1)
    \/ JobDone(1)
    \/ \E p \in {UI(1), Sched(1)} :
         \/ LogRead(p)
         \/ LogWrite(p)
         \/ RequestResponds(p)
         \/ RunLoad(p)
         \/ RunFirst(p)
         \/ RequestReturn(p)
    \/ (clock = 0 /\ Tick)

InitOverlap == Init /\ load_tokens(tokens_file) = <<TokB>>

SpecOverlap == InitOverlap /\ [][NextOverlap]_vars

\* Session 1 runs batches by "run all now" while session 2 adds and deletes
\* tokens; every request is answered, and no script thread is interrupted
\* inside append_log.
NextSnapshot ==
    \/ \E s \in Sessions :
         \/ OpenSession(s)
         \/ Script(s)
    \/ ClickRunAll(1)
    \/ RunReturnUI(1)
    \/ RunLoad(UI(1))
    \/ RunFirst(UI(1))
    \/ RequestResponds(UI(1))
    \/ RequestReturn(UI(1))
    \/ ClickSave(2)
    \/ ClickDelete(2)
    \/ SaveOpen(2)
    \/ SaveWrite(2)
    \/ Rerun(2)
    \/ \E p \in UIProcs : AppendLog(p)

SpecSnapshot == Init /\ [][NextSnapshot]_vars

\* The clock has crossed SCHEDULE_TIME; one session uses two of its widgets
\* while its scheduler thread runs the daily job over a store of no or one
\* token; every request is answered, and no thread is interrupted inside
\* append_log.
MayClick == clock = 1 /\ events + 1 < MaxEvents

NextFrame ==
    \/ OpenSession(1)
    \/ (MayClick /\ ClickSave(1))
    \/ (MayClick /\ ClickDelete(1))
    \/ (MayClick /\ ClickTest(1))
    \/ (MayClick /\ ClickRunAll(1))
    \/ (MayClick /\ ClickDownload(1))
    \/ Script(1)
    \/ SaveOpen(1)
    \/ SaveWrite(1)
    \/ Rerun(1)
    \/ RunReturnUI(1)
    \/ SchedClear(1)
    \/ SchedRegister(1)
    \/ SchedPoll(1)
    \/ JobDone(1)
    \/ \E p \in {UI(1), Sched(1)} :
         \/ AppendLog(p)
         \/ RequestResponds(p)
         \/ RunLoad(p)
         \/ RunFirst(p)
         \/ RequestReturn(p)
    \/ (clock = 0 /\ Tick)

InitFrame == Init /\ tokens_file \in {NoFile, FileOf(json_dumps(<<TokB>>))}

SpecFrame == InitFrame /\ [][NextFrame]_vars

(***************************************************************************)
(* Properties.                                                             *)
(***************************************************************************)
IsPrefix(a, b) == Len(a) <= Len(b) /\ SubSeq(b, 1, Len(a)) = a

NoDuplicates(l) == \A i, j \in 1..Len(l) : l[i] = l[j] => i = j

Occurrences(l, t) == Cardinality({i \in 1..Len(l) : l[i] = t})

LogText == IF log_file.exists THEN log_file.text ELSE <<>>

\* a scheduler thread that has been started and has not ended
Live(s) == pc[Sched(s)] \notin {"unstarted", "dead", "exit"}

\* every live scheduler thread has polled since the last crossing and is
\* back in its loop
AllPolled == \A s \in Sessions : Live(s) => pc[Sched(s)] = "loop" /\ s \in polled

\* C1: on every day whose SCHEDULE_TIME a running scheduler saw, the
\* scheduler invokes the batch runner exactly once: never twice, and, once
\* every scheduler thread has polled after the crossing, not zero times;
\* for any number of sessions opened.
C1_OncePerDay ==
    \A d \in 1..clock :
        /\ fired[d] <= 1
        /\ (d \in armed /\ (d < clock \/ AllPolled)) => fired[d] = 1

\* C2: there is at most one background scheduler thread in the process and
\* at most one daily job registered, however many sessions are opened.
C2_OneSchedulerThread ==
    /\ Cardinality({s \in Sessions : pc[Sched(s)] # "unstarted"}) <= 1
    /\ Len(jobs) <= 1

\* C3: a failure while one token is processed (the request fails, or
\* writing that token's log line fails) never aborts run_all_tokens: the
\* batch goes on to return one result per token, a failed token's with
\* ok = FALSE.
C3_TokenFailureIsolated ==
    \A p \in Procs :
        /\ run[p].status # "aborted by a token"
        /\ pc[p] = "run_return" => Len(run[p].results) = Len(run[p].tokens)
        /\ pc[p] = "req_exc" => ~req[p].ok

\* C4: the scheduler loop never ends because of an error: the stop event
\* is never set, so a scheduler thread once started is never dead.
C4_LoopSurvivesErrors ==
    \A s \in Sessions : pc[Sched(s)] # "dead"

\* C5: the log only grows: every step leaves the log's content an
\* extension of what it was, so no line a completed append_log wrote is
\* lost or overwritten.
C5_LogAppendOnly == [][IsPrefix(LogText, LogText')]_vars

\* C6: a token an add has saved stays in the token store until a delete
\* removes it: whenever no save is in the middle of writing the file, every
\* such token is in the stored list.
C6_SavedTokenStays ==
    (\A s \in Sessions : pc[UI(s)] # "save_write")
        => persisted \subseteq Range(load_tokens(tokens_file))

\* C7: no log line holds a full token: the prefix a line of
\* run_request_for_token carries is a proper prefix of the token, whatever
\* the token's length, and the token_prefix of a result is not the token.
C7_NoFullTokenLogged ==
    \A p \in Procs :
        /\ (pc[p] \in {"log_read", "log_write"}
              /\ log[p].line.kind \in {"tok_status", "tok_exception"})
           => /\ IsPrefix(log[p].line.prefix, req[p].token)
              /\ Len(log[p].line.prefix) < Len(req[p].token)
        /\ \A i \in 1..Len(run[p].results) :
              run[p].results[i].token_prefix # run[p].tokens[i]

\* C8: a delete removes exactly the token that was displayed at the
\* position the user pressed, also when the stored list has changed since
\* the page was displayed.
C8_DeleteRemovesDisplayed ==
    \A s \in Sessions :
        (pc[UI(s)] = "save_open" /\ event[s].kind = "del")
            => popped[s] = shown[s][event[s].i + 1]

\* C9: the token store never holds a token twice: the list in the token
\* file, and every list a handler is about to save, has no duplicates,
\* after any interleaving of adds and deletes of the sessions.
C9_NoDuplicateTokens ==
    /\ NoDuplicates(load_tokens(tokens_file))
    /\ \A s \in Sessions :
           pc[UI(s)] \in {"save_open", "save_write"} => NoDuplicates(tokens[s])

\* an add whose text names TokA on two lines has saved a list with TokA
C9_RepeatedLineSaved ==
    \E s \in Sessions :
        /\ pc[UI(s)] = "log_read" /\ ret[UI(s)] = "rerun"
        /\ event[s].kind = "add"
        /\ NewTokens(event[s].text) = <<TokA, TokA>>
        /\ added[s] = 1
        /\ Occurrences(load_tokens(tokens_file), TokA) = 1

\* session 1 repeats the add it did last
SecondAdd == event[1].kind = "add" /\ last_event[1] = event[1]

\* C10: adding is idempotent: when a session adds the text it added last,
\* the second add counts 0 added tokens, leaves the list as it was
\* displayed after the first add, saves that same list, and the store holds
\* each token of the text exactly once.
C10_AddIdempotent ==
    /\ (SecondAdd /\ pc[UI(1)] = "save_open")
         => /\ added[1] = 0
            /\ tokens[1] = shown[1]
            /\ tokens[1] = load_tokens(tokens_file)
    /\ (SecondAdd /\ pc[UI(1)] = "log_read" /\ ret[UI(1)] = "rerun")
         => /\ added[1] = 0
            /\ load_tokens(tokens_file) = shown[1]
            /\ \A t \in Range(NewTokens(event[1].text)) :
                   Occurrences(load_tokens(tokens_file), t) = 1

\* the second add of a text of two tokens has been saved
C10_SecondAddSaved ==
    /\ SecondAdd
    /\ pc[UI(1)] = "log_read" /\ ret[UI(1)] = "rerun"
    /\ NewTokens(event[1].text) = <<TokC, TokA>>
    /\ added[1] = 0

\* a process inside run_request_for_token called by run_all_tokens
InBatchRequest(p) ==
    /\ run[p].status = "running"
    /\ \/ pc[p] \in {"request", "req_ok", "req_exc"}
       \/ pc[p] \in {"log_read", "log_write"} /\ ret[p] \in {"req_ok", "req_exc"}

\* C11: run_all_tokens returns its results in the order of the token list
\* it read at its start: result i carries the prefix of token i, the
\* outcome being returned is that of the token after the results so far,
\* and the returned list has the length of the token list.
C11_ResultsInTokenOrder ==
    \A p \in Procs :
        /\ Len(run[p].results) <= Len(run[p].tokens)
        /\ \A i \in 1..Len(run[p].results) :
               run[p].results[i].token_prefix = TokenPrefix(run[p].tokens[i]) \o Ellipsis
        /\ InBatchRequest(p) =>
               /\ Len(run[p].results) < Len(run[p].tokens)
               /\ req[p].token = run[p].tokens[Len(run[p].results) + 1]
        /\ pc[p] = "run_return" => Len(run[p].results) = Len(run[p].tokens)

\* a batch over two tokens returns: the first failed, the second got a 403
C11_MixedBatchReturned ==
    \E p \in Procs :
        /\ pc[p] = "run_return"
        /\ run[p].tokens = <<TokC, TokA>>
        /\ ~run[p].results[1].ok
        /\ run[p].results[2].ok /\ run[p].results[2].status = 403

\* the lines of the log of one kind
LinesOfKind(kind) == SelectSeq(LogText, LAMBDA l : l.kind = kind)

\* C12: a manual run and a scheduled run that overlap both execute: when
\* both have returned, each has one result per stored token and the log
\* holds the start line and the end line of each.
C12_OverlappingRunsBothLogged ==
    (pc[UI(1)] = "run_return" /\ pc[Sched(1)] = "run_return")
        => /\ \A p \in {UI(1), Sched(1)} :
                  Len(run[p].results) = Len(load_tokens(tokens_file))
           /\ Len(LinesOfKind("run_start")) >= 2
           /\ Len(LinesOfKind("run_end")) >= 2

\* C13: every load_tokens call finds the complete serialized list of the
\* last save (or the initial content): whenever a thread is about to load
\* and the store has held tokens, the token file parses as a list, so the
\* load never returns the empty list of an emptied or half-written file.
C13_LoadSeesCompleteFile ==
    \A p \in Procs :
        (pc[p] \in {"load", "run_load"} /\ persisted # {})
            => (tokens_file.exists /\ json_loads(tokens_file.text).ok)

\* a text of nothing but white space, the empty text included
IsBlank(text) == \A i \in 1..Len(text) : IsSpace(text[i])

\* C14: an add whose text is empty or white space only changes no state:
\* the script run it starts ends without a save, so the step that handles
\* it leaves the token file, the log file and the pending log calls as
\* they were, nothing is added, and the page shows the stored list.
C14_BlankAddChangesNothing ==
    [][\A s \in Sessions :
          (/\ pc[UI(s)] = "load"
           /\ event[s].kind = "add" /\ IsBlank(event[s].text)
           /\ pc'[UI(s)] # "load")
          => /\ pc'[UI(s)] = "idle"
             /\ tokens_file' = tokens_file
             /\ log_file' = log_file
             /\ log' = log
             /\ added' = added
             /\ persisted' = persisted
             /\ shown'[s] = load_tokens(tokens_file)]_vars

\* a run started by an add of white space has ended over a non-empty store
C14_BlankAddHandled ==
    \E s \in Sessions :
        /\ pc[UI(s)] = "idle"
        /\ last_event[s].kind = "add" /\ last_event[s].text = <<SP, NL, SP>>
        /\ shown[s] # <<>>
        /\ log_file.exists

\* the log line of result i of the batch of p
TokenLine(p, i) ==
    IF run[p].results[i].ok
    THEN Line(clock, "tok_status", TokenPrefix(run[p].tokens[i]), run[p].results[i].status)
    ELSE Line(clock, "tok_exception", TokenPrefix(run[p].tokens[i]), 0)

\* the lines the batch of p has to have appended so far: its start line,
\* a line per result, and its end line once it returns
BatchLines(p) ==
    <<Line(clock, "run_start", <<>>, Len(run[p].tokens))>>
    \o [i \in 1..Len(run[p].results) |-> TokenLine(p, i)]
    \o (IF pc[p] = "run_return" THEN <<Line(clock, "run_end", <<>>, 0)>> ELSE <<>>)

\* the log ends with the lines ls
LogEndsWith(ls) ==
    /\ Len(LogText) >= Len(ls)
    /\ SubSeq(LogText, Len(LogText) - Len(ls) + 1, Len(LogText)) = ls

\* C15: with no other writer on the log, a batch over n tokens appends
\* n + 2 lines: its start line, one line per token in stored order (one per
\* request, succeeded or failed), its end line.  Between two requests and
\* when the batch returns, the log ends with exactly these lines.
C15_BatchLogLines ==
    \A s \in Sessions :
        (run[UI(s)].status = "running" /\ pc[UI(s)] \in {"request", "run_return"})
            => LogEndsWith(BatchLines(UI(s)))

\* a manual batch over two tokens returns, one request failed, one answered
C15_BatchOfTwoLogged ==
    /\ pc[UI(1)] = "run_return"
    /\ run[UI(1)].tokens = <<TokC, TokA>>
    /\ run[UI(1)].results[1].ok /\ ~run[UI(1)].results[2].ok
    /\ Len(LogText) >= 5

\* C16: saving and loading are inverse on stored lists: a token file that
\* a save has completed (or the process found) is what save_tokens writes
\* for the list load_tokens reads from it, and the list a handler saves is
\* the list load_tokens reads back from what save_tokens writes for it.
C16_SaveLoadRoundTrip ==
    /\ (tokens_file.exists /\ \A s \in Sessions : pc[UI(s)] # "save_write")
         => save_tokens(load_tokens(tokens_file)) = tokens_file.text
    /\ \A s \in Sessions :
           pc[UI(s)] \in {"save_open", "save_write"}
               => load_tokens(FileOf(save_tokens(tokens[s]))) = tokens[s]

\* a save of three tokens, one of them with a quote and a backslash, is done
C16_EscapedListSaved ==
    \E s \in Sessions :
        /\ pc[UI(s)] = "log_read" /\ ret[UI(s)] = "rerun"
        /\ Len(tokens[s]) = 3
        /\ tokens[s][3] = TokA
        /\ tokens_file = FileOf(save_tokens(tokens[s]))

\* C17: a batch that has started runs to completion: its requests are
\* issued one after the other (the request in progress is the only one,
\* for the token after the results so far), and nothing but a request that
\* never returns keeps it from its end line and its return: no batch is
\* ever abandoned part-way.
C17_BatchRunsToCompletion ==
    \A p \in Procs :
        /\ run[p].status \in {"none", "running"}
        /\ (run[p].status = "running" /\ pc[p] = "request")
               => Len(run[p].results) < Len(run[p].tokens)

\* C18: a batch works on the token list it loaded at its start: the count
\* in its start line is the length of that list, the list stays the same
\* while the batch runs whatever other sessions save, every request is for
\* the next token of that list, and the batch returns one result per token
\* of it.
C18_BatchUsesSnapshot ==
    /\ [](\A p \in Procs :
            /\ (pc[p] = "log_read" /\ log[p].line.kind = "run_start")
                   => log[p].line.n = Len(run[p].tokens)
            /\ (run[p].status = "running" /\ pc[p] = "request")
                   => req[p].token = run[p].tokens[Len(run[p].results) + 1]
            /\ pc[p] = "run_return" => Len(run[p].results) = Len(run[p].tokens))
    /\ [][\A p \in Procs :
            (run[p].status = "running" /\ run'[p].status = "running")
                => run'[p].tokens = run[p].tokens]_vars

\* a batch that has a result already is at its next request while the
\* store no longer holds the list the batch loaded
C18_StoreChangedDuringBatch ==
    /\ run[UI(1)].status = "running"
    /\ pc[UI(1)] = "request"
    /\ Len(run[UI(1)].results) >= 1
    /\ load_tokens(tokens_file) # run[UI(1)].tokens
    /\ \A s \in Sessions : pc[UI(s)] # "save_write"

\* C19: only an add with tokens in its text and a delete write the token
\* file: every step that changes the file is a step of save_tokens in a
\* script run started by such an add or by a delete; the test, run-all and
\* download handlers and the scheduled job leave it as it is.
C19_OnlyAddAndDeleteWrite ==
    [][tokens_file' # tokens_file
         => \E s \in Sessions :
                /\ pc[UI(s)] \in {"save_open", "save_write"}
                /\ pc'[UI(s)] # pc[UI(s)]
                /\ \/ event[s].kind = "del"
                   \/ event[s].kind = "add" /\ ~IsBlank(event[s].text)]_vars

\* the scheduled job has run and returned, the session has run a test, and
\* there is a token file
C19_JobAndTestDone ==
    /\ fired[1] = 1 /\ pc[Sched(1)] = "loop"
    /\ pc[UI(1)] = "idle" /\ last_event[1].kind = "test"
    /\ tokens_file.exists

\* a process in the append_log call of run_request_for_token
LoggingRequest(p) == pc[p] = "log_read" /\ ret[p] \in {"req_ok", "req_exc"}

\* C20: run_request_for_token returns status null exactly when ok is
\* false (a null status is 0 here), and it always returns: with ok true
\* once the response is logged, with ok false and status null when the
\* request or the writing of its log line raised.  So a process logging a
\* request's line goes on inside run_request_for_token or returns from it.
C20_StatusNullIffNotOk ==
    /\ [](\A p \in Procs :
            pc[p] \in {"req_ok", "req_exc"}
                => /\ req[p].ok = (req[p].status # 0)
                   /\ req[p].ok = (pc[p] = "req_ok"))
    /\ [][\A p \in Procs :
            LoggingRequest(p)
                => pc'[p] \in {"log_read", "log_write", "req_ok", "req_exc"}]_vars

====
